---- MODULE Spec2Model ----
(***************************************************************************)
(* A model of dirhash (src/src/dirhash/__init__.py): the Protocol's        *)
(* descriptor encoding, get_match_patterns, included_paths and the serial  *)
(* and multiprocessing branches of dirhash().                              *)
(*                                                                         *)
(* Python strings are modelled as sequences of character codes (ASCII), so *)
(* that sorted() and str.join() are computed as Python computes them.      *)
(***************************************************************************)
EXTENDS Integers, Sequences, FiniteSets, TLC

(***************************************************************************)
(* Strings                                                                 *)
(***************************************************************************)

\* Python's str.__lt__: lexicographic by code point, a proper prefix is less.
StrLess(a, b) ==
    \E i \in 1..(Len(a) + 1) :
        /\ \A j \in 1..(i - 1) : j <= Len(b) /\ a[j] = b[j]
        /\ \/ i = Len(a) + 1 /\ i <= Len(b)
           \/ i <= Len(a) /\ i <= Len(b) /\ a[i] < b[i]

\* Insertion of one string into a sorted list of strings.
RECURSIVE InsertSorted(_, _)
InsertSorted(s, list) ==
    IF list = <<>> THEN <<s>>
    ELSE IF StrLess(Head(list), s) THEN <<Head(list)>> \o InsertSorted(s, Tail(list))
    ELSE <<s>> \o list

\* Python's sorted() on a list of strings.
RECURSIVE sorted(_)
sorted(list) ==
    IF list = <<>> THEN <<>> ELSE InsertSorted(Head(list), sorted(Tail(list)))

\* Python's sep.join(list).
RECURSIVE join(_, _)
join(sep, list) ==
    IF list = <<>> THEN <<>>
    ELSE IF Len(list) = 1 THEN list[1]
    ELSE list[1] \o sep \o join(sep, Tail(list))

\* '{}'.format(b) for a bool: "True" / "False".
FormatBool(b) == IF b THEN <<84, 114, 117, 101>> ELSE <<70, 97, 108, 115, 101>>

(***************************************************************************)
(* Hashing.  hasher_factory(data).hexdigest() is modelled as an ideal      *)
(* (injective) hash: the digest is the data between "<" and ">", with NUL  *)
(* bytes written as "0" (a hex digest never holds a separator byte).       *)
(***************************************************************************)
hexdigest(data) ==
    <<60>> \o [i \in 1..Len(data) |-> IF data[i] = 0 THEN 48 ELSE data[i]] \o <<62>>

\* hasher.update(chunk): the hasher's state is the bytes fed so far.
update(hasher, chunk) == hasher \o chunk

\* f.read(chunk_size) at offset pos of a file holding `content`.
read(content, pos, chunk_size) ==
    SubSeq(content, pos + 1, IF pos + chunk_size < Len(content)
                             THEN pos + chunk_size ELSE Len(content))

\* The loop of _get_filehash: for chunk in iter(lambda: f.read(chunk_size), b'').
RECURSIVE ReadLoop(_, _, _, _)
ReadLoop(content, pos, chunk_size, hasher) ==
    LET chunk == read(content, pos, chunk_size) IN
    IF chunk = <<>> THEN hasher
    ELSE ReadLoop(content, pos + Len(chunk), chunk_size, update(hasher, chunk))

\* _get_filehash without a cache, on a readable file.
HashFile(content, chunk_size) == hexdigest(ReadLoop(content, 0, chunk_size, <<>>))

(***************************************************************************)
(* Protocol                                                                *)
(***************************************************************************)
NAME == "name"
DATA == "data"
IS_LINK == "is_link"
options == {NAME, DATA, IS_LINK}
RAISE == "raise"
HASH_REFERENCE == "hash_reference"

\* The keys as they are written into an entry string.
KeyText(key) ==
    CASE key = "dirhash" -> <<100, 105, 114, 104, 97, 115, 104>>
      [] key = DATA -> <<100, 97, 116, 97>>
      [] key = NAME -> <<110, 97, 109, 101>>
      [] key = IS_LINK -> <<105, 115, 95, 108, 105, 110, 107>>

_entry_property_separator == <<0>>
_entry_descriptor_separator == <<0, 0>>

\* Protocol.__init__'s checks: the entry_properties a Protocol can hold.
ValidEntryProperties ==
    {ep \in SUBSET options : NAME \in ep \/ DATA \in ep}

\* Mutant of _get_entry_properties: the name is included whatever was asked.
_get_entry_properties_always_name(entry_properties, path, entry_hash) ==
    (IF path.is_dir THEN << <<"dirhash", entry_hash>> >>
     ELSE IF DATA \in entry_properties THEN << <<DATA, entry_hash>> >>
     ELSE <<>>)
    \o << <<NAME, path.name>> >>
    \o (IF IS_LINK \in entry_properties
        THEN << <<IS_LINK, FormatBool(path.is_symlink)>> >> ELSE <<>>)

\* Protocol._get_entry_properties: the (key, value-as-text) pairs of one entry.
\* path = [name, is_dir, is_symlink].
_get_entry_properties(entry_properties, path, entry_hash) ==
    (IF path.is_dir THEN << <<"dirhash", entry_hash>> >>
     ELSE IF DATA \in entry_properties THEN << <<DATA, entry_hash>> >>
     ELSE <<>>)
    \o (IF NAME \in entry_properties THEN << <<NAME, path.name>> >> ELSE <<>>)
    \o (IF IS_LINK \in entry_properties
        THEN << <<IS_LINK, FormatBool(path.is_symlink)>> >> ELSE <<>>)

\* Protocol._get_entry_descriptor.
_get_entry_descriptor(properties) ==
    LET entry_strings == [i \in 1..Len(properties) |->
                            KeyText(properties[i][1]) \o <<58>> \o properties[i][2]]
    IN join(_entry_property_separator, sorted(entry_strings))

(***************************************************************************)
(* Paths.  A relative path is held as the sequence of its components; its  *)
(* text joins them with "/".                                               *)
(***************************************************************************)
PathText(comps) == join(<<47>>, comps)

\* os.path.join('.', relative): '.' and then the components of relative.
JoinDot(comps) == << <<46>> >> \o comps

\* os.path.normpath as far as relpath needs it: '.' components are dropped.
normpath(comps) == SelectSeq(comps, LAMBDA c : c # <<46>>)

\* posixpath.commonprefix of two component lists: the length of the longest
\* common prefix.
CommonLen(a, b) ==
    LET m == IF Len(a) < Len(b) THEN Len(a) ELSE Len(b)
        same == {k \in 0..m : \A j \in 1..k : a[j] = b[j]}
    IN CHOOSE k \in same : \A l \in same : l <= k

\* os.path.relpath(path, start), both relative to the same working directory.
relpath(path, start) ==
    LET path_list  == normpath(path)
        start_list == normpath(start)
        i == CommonLen(start_list, path_list)
        rel_list == [k \in 1..(Len(start_list) - i) |-> <<46, 46>>]
                    \o SubSeq(path_list, i + 1, Len(path_list))
    IN IF rel_list = <<>> THEN <<46>> ELSE PathText(rel_list)

\* Protocol._get_cyclic_linked_dir_descriptor.
_get_cyclic_linked_dir_descriptor(dir_node) ==
    relpath(JoinDot(dir_node.target_relative), JoinDot(dir_node.relative))

\* Mutant of get_descriptor: the entry descriptors are joined as listed.
get_descriptor_unsorted(entry_properties, dir_node) ==
    IF dir_node.kind = "cyclic" THEN _get_cyclic_linked_dir_descriptor(dir_node)
    ELSE
        LET entries == dir_node.directories \o dir_node.files
            entry_descriptors == [i \in 1..Len(entries) |->
                _get_entry_descriptor(
                    _get_entry_properties(entry_properties, entries[i][1], entries[i][2]))]
        IN join(_entry_descriptor_separator, entry_descriptors)

\* Protocol.get_descriptor.  dir_node.directories and dir_node.files are
\* sequences of <<path, entry_hash>>.
get_descriptor(entry_properties, dir_node) ==
    IF dir_node.kind = "cyclic" THEN _get_cyclic_linked_dir_descriptor(dir_node)
    ELSE
        LET entries == dir_node.directories \o dir_node.files
            entry_descriptors == [i \in 1..Len(entries) |->
                _get_entry_descriptor(
                    _get_entry_properties(entry_properties, entries[i][1], entries[i][2]))]
        IN join(_entry_descriptor_separator, sorted(entry_descriptors))

\* DirNode.empty; a CyclicLinkedDir holds no children of its own and is not
\* asked (its relative path is never '').
empty(dir_node) == dir_node.directories = <<>> /\ dir_node.files = <<>>

\* Mutant of NothingToHash: filter_.empty_dirs is not consulted.
NothingToHashIgnoringFlag(empty_dirs, dir_node) ==
    dir_node.relative = <<>> /\ dir_node.directories = <<>> /\ dir_node.files = <<>>

\* dir_apply of dirhash(): the 'Nothing to hash' test ...
NothingToHash(empty_dirs, dir_node) ==
    ~empty_dirs /\ dir_node.relative = <<>> /\ empty(dir_node)

\* Mutant of dir_apply: the descriptor of a cyclic link is passed on unhashed.
dir_apply_literal_reference(entry_properties, dir_node) ==
    IF dir_node.kind = "cyclic" THEN get_descriptor(entry_properties, dir_node)
    ELSE hexdigest(get_descriptor(entry_properties, dir_node))

\* ... and the hash it returns otherwise.
dir_apply(entry_properties, dir_node) ==
    hexdigest(get_descriptor(entry_properties, dir_node))

(***************************************************************************)
(* The filtered tree handed over by scantree.  A node is                   *)
(*   [kind, name, is_symlink, directories, files, target]                  *)
(* kind "dir" (DirNode) holds its sub-nodes and its files in the order the *)
(* scanner listed them; kind "cyclic" (CyclicLinkedDir) is a link to the   *)
(* ancestor whose relative path is the first `target` components of the    *)
(* link's own.  A file is [name, real, is_symlink].                        *)
(***************************************************************************)
MaxEntries == 2        \* entries below the root
MaxDepth == 2          \* levels of directories below the root

Names == {<<97>>, <<98>>}                 \* "a", "b"
RealPaths == {"r1", "r2"}
\* The bytes of the file at each real path.
Content(real) == IF real = "r1" THEN <<120, 121, 122>> ELSE <<119>>
ChunkSizes == {1, 2}

FilePaths(names) == [name : names, real : RealPaths, is_symlink : BOOLEAN]

\* All sequences of exactly n files.
RECURSIVE FileSeqs(_, _)
FileSeqs(n, names) ==
    IF n = 0 THEN {<<>>}
    ELSE {<<f>> \o rest : f \in FilePaths(names), rest \in FileSeqs(n - 1, names)}

\* Names are unique within a directory, and two files of one directory that
\* are not links are two different real files.
WellFormedDir(directories, files) ==
    /\ \A i, j \in 1..Len(directories) : i # j => directories[i].name # directories[j].name
    /\ \A i, j \in 1..Len(files) :
          i # j => /\ files[i].name # files[j].name
                   /\ (~files[i].is_symlink /\ ~files[j].is_symlink)
                         => files[i].real # files[j].real
    /\ \A i \in 1..Len(directories), j \in 1..Len(files) : directories[i].name # files[j].name

RECURSIVE DirNodes(_, _, _, _, _)
RECURSIVE Forests(_, _, _, _)

\* The sequences of nodes at level lvl (so many components in their relative
\* path) that hold n nodes in all, with d further levels allowed below.
Forests(n, lvl, d, names) ==
    IF n = 0 THEN {<<>>}
    ELSE UNION {{<<node>> \o rest : node \in DirNodes(k, lvl, d, names, names),
                                    rest \in Forests(n - k, lvl, d, names)} : k \in 1..n}

\* The nodes at level lvl holding n nodes and files in all, itself included,
\* named from `own` and their entries from `names`.
DirNodes(n, lvl, d, own, names) ==
    (IF n = 1 /\ lvl > 0
     THEN {[kind |-> "cyclic", name |-> nm, is_symlink |-> TRUE,
            directories |-> <<>>, files |-> <<>>, target |-> t] :
                nm \in own, t \in 0..(lvl - 1)}
     ELSE {})
    \cup
    UNION {{[kind |-> "dir", name |-> nm, is_symlink |-> ln,
             directories |-> ds, files |-> fs, target |-> 0] :
                nm \in own, ln \in (IF lvl = 0 THEN {FALSE} ELSE BOOLEAN),
                ds \in Forests(k, lvl + 1, d - 1, names),
                fs \in FileSeqs(n - 1 - k, names)} :
           k \in (IF d > 0 THEN 0..(n - 1) ELSE {0})}

RECURSIVE WellFormed(_)
WellFormed(node) ==
    /\ WellFormedDir(node.directories, node.files)
    /\ \A i \in 1..Len(node.directories) : WellFormed(node.directories[i])

\* The trees scantree can return with entries named from `names`: the root
\* has the empty name.
TreesNamed(names) ==
    {t \in UNION {DirNodes(n + 1, 0, MaxDepth, {<<>>}, names) : n \in 0..MaxEntries} :
        WellFormed(t)}

Trees == TreesNamed(Names)

\* include_empty=False: scantree drops every directory left without entries,
\* so that only the root can be empty.
RECURSIVE NoEmptyDirBelow(_)
NoEmptyDirBelow(node) ==
    \A i \in 1..Len(node.directories) :
        LET sub == node.directories[i] IN
           /\ sub.kind = "dir" => ~(sub.directories = <<>> /\ sub.files = <<>>)
           /\ NoEmptyDirBelow(sub)

RECURSIVE HasCyclic(_)
HasCyclic(node) ==
    node.kind = "cyclic" \/ \E i \in 1..Len(node.directories) : HasCyclic(node.directories[i])

(***************************************************************************)
(* Walking the tree.  A directory is addressed by the indices that lead to *)
(* it from the root; an id [dir, file] names file number `file` of that    *)
(* directory, or the directory itself when file = 0.                       *)
(***************************************************************************)
RECURSIVE NodeAt(_, _)
NodeAt(node, addr) ==
    IF addr = <<>> THEN node ELSE NodeAt(node.directories[Head(addr)], Tail(addr))

\* path.relative of the directory at addr, as components.
RelativeOf(root, addr) == [i \in 1..Len(addr) |-> NodeAt(root, SubSeq(addr, 1, i)).name]

\* The order in which apply() visits: the sub-directories of a directory,
\* then its files, then the directory itself.
RECURSIVE PostOrder(_, _)
RECURSIVE PostOrderSubs(_, _, _)
PostOrderSubs(node, addr, i) ==
    IF i > Len(node.directories) THEN <<>>
    ELSE PostOrder(node.directories[i], addr \o <<i>>) \o PostOrderSubs(node, addr, i + 1)

PostOrder(node, addr) ==
    PostOrderSubs(node, addr, 1)
    \o [i \in 1..Len(node.files) |-> [dir |-> addr, file |-> i]]
    \o <<[dir |-> addr, file |-> 0]>>

DirPath(node) == [name |-> node.name, is_dir |-> TRUE, is_symlink |-> node.is_symlink]
FilePath(f) == [name |-> f.name, is_dir |-> FALSE, is_symlink |-> f.is_symlink]

\* The node dir_apply receives: the directory at addr with its children
\* replaced by what file_apply and dir_apply returned for them.
AppliedDirNode(root, addr, hashes) ==
    LET node == NodeAt(root, addr)
        rel  == RelativeOf(root, addr)
    IN [kind |-> node.kind,
        relative |-> rel,
        target_relative |-> SubSeq(rel, 1, node.target),
        directories |-> [i \in 1..Len(node.directories) |->
            <<DirPath(node.directories[i]), hashes[[dir |-> addr \o <<i>>, file |-> 0]]>>],
        files |-> [i \in 1..Len(node.files) |->
            <<FilePath(node.files[i]), hashes[[dir |-> addr, file |-> i]]>>]]

\* The real paths of all files of the tree.
RECURSIVE RealPathsOf(_)
RealPathsOf(node) ==
    {node.files[i].real : i \in 1..Len(node.files)}
    \cup UNION {RealPathsOf(node.directories[i]) : i \in 1..Len(node.directories)}

\* All orders of a set: list(real_paths) of a Python set.
ListsOf(S) ==
    {l \in [1..Cardinality(S) -> S] : \A i, j \in 1..Cardinality(S) : i # j => l[i] # l[j]}

(***************************************************************************)
(* dirhash(): state.  Two calls on the same tree and configuration are     *)
(* made one after the other, the first with jobs = 1 and the second with   *)
(* jobs > 1.                                                               *)
(***************************************************************************)
VARIABLES
    tree,               \* the filtered tree scantree yields for `directory`
    args,                \* the arguments of the call: empty_dirs, protocol, chunk_size
    call,               \* 1 or 2: which call is running
    jobs,               \* the jobs argument of the running call
    pc,                 \* where the running call is
    pos,                \* the next position of the walk in PostOrder(tree)
    applied,            \* id -> what file_apply / dir_apply returned
    cache,              \* serial: the per-call cache, real path -> hash
    opens,              \* real path -> times the file was opened in this call
    real_paths,         \* parallel: list(real_paths)
    task,               \* parallel: index -> "pending" | "done" | "failed"
    file_hashes,        \* parallel: index -> the worker's result
    real_path_to_hash,  \* parallel: the table of line 186
    result              \* call -> what the call returned or raised

vars == <<tree, args, call, jobs, pc, pos, applied, cache, opens, real_paths,
          task, file_hashes, real_path_to_hash, result>>

ParallelJobs == {2}
Errors == {"ValueError", "IOError", "SymlinkRecursionError"}
NoResult == [status |-> "none", value |-> <<>>]
Returned(value) == [status |-> "returned", value |-> value]
Raised(error) == [status |-> "error", value |-> error]

Configs ==
    [entry_properties : ValidEntryProperties,
     on_cyclic_link : {RAISE, HASH_REFERENCE},
     empty_dirs : BOOLEAN,
     chunk_size : ChunkSizes]

allow_cyclic_links == args.on_cyclic_link # RAISE

Empty == [x \in {} |-> <<>>]
NoOpens == [r \in RealPaths |-> 0]
order == PostOrder(tree, <<>>)
current == order[pos]

\* No call has been made yet.
NotCalled ==
    /\ call = 1
    /\ jobs = 1
    /\ pc = "call"
    /\ pos = 1
    /\ applied = Empty
    /\ cache = Empty
    /\ opens = NoOpens
    /\ real_paths = <<>>
    /\ task = <<>>
    /\ file_hashes = <<>>
    /\ real_path_to_hash = Empty
    /\ result = [c \in {1, 2} |-> NoResult]

Init ==
    /\ args \in Configs
    /\ tree \in {t \in Trees : args.empty_dirs \/ NoEmptyDirBelow(t)}
    /\ NotCalled

\* The running call ends: it returns a digest or raises.
Finish(outcome) ==
    /\ result' = [result EXCEPT ![call] = outcome]
    /\ pc' = "returned"

\* dirhash() is entered with jobs = j (lines 119-136, 157-158).
Enter(j) ==
    /\ pc = "call"
    /\ jobs' = j
    /\ pc' = IF j = 1 THEN "serial" ELSE "discover"
    /\ pos' = 1
    /\ applied' = Empty
    /\ cache' = Empty
    /\ opens' = NoOpens
    /\ real_paths' = <<>>
    /\ task' = <<>>
    /\ file_hashes' = <<>>
    /\ real_path_to_hash' = Empty
    /\ UNCHANGED <<tree, args, call, result>>

\* The first call is made with jobs = 1, the second with jobs > 1.
Call == \E j \in (IF call = 1 THEN {1} ELSE ParallelJobs) : Enter(j)

\* A call with jobs = 1.
CallSerial == Enter(1)

(***************************************************************************)
(* _get_filehash with a cache (lines 505-510)                              *)
(***************************************************************************)
\* cache.get(filepath, None) is not None
CacheHit(c, filepath) == filepath \in DOMAIN c

\* Mutant of CacheStore: the result is not kept.
CacheStoreNothing(c, filepath, filehash) == c

\* cache[filepath] = filehash
CacheStore(c, filepath, filehash) == (filepath :> filehash) @@ c

Opened(filepath) == [opens EXCEPT ![filepath] = @ + 1]

\* Serial branch: file_apply of lines 138-144 on the next file of the walk.
\* Opening or reading the file may fail; the error leaves dirhash().
SerialFileApply ==
    /\ pc = "serial"
    /\ current.file > 0
    /\ LET f == NodeAt(tree, current.dir).files[current.file] IN
       IF CacheHit(cache, f.real)
       THEN /\ applied' = (current :> cache[f.real]) @@ applied
            /\ pos' = pos + 1
            /\ UNCHANGED <<cache, opens, pc, result>>
       ELSE \E readable \in BOOLEAN :
            /\ opens' = Opened(f.real)
            /\ IF readable
               THEN LET filehash == HashFile(Content(f.real), args.chunk_size) IN
                    /\ cache' = CacheStore(cache, f.real, filehash)
                    /\ applied' = (current :> filehash) @@ applied
                    /\ pos' = pos + 1
                    /\ UNCHANGED <<pc, result>>
               ELSE /\ Finish(Raised("IOError"))
                    /\ UNCHANGED <<cache, applied, pos>>
    /\ UNCHANGED <<tree, args, call, jobs, real_paths, task, file_hashes, real_path_to_hash>>

\* Serial branch: scantree meets a cyclic link while allow_cyclic_links is
\* false and raises.
SerialCyclicLinkRaise ==
    /\ pc = "serial"
    /\ current.file = 0
    /\ NodeAt(tree, current.dir).kind = "cyclic"
    /\ ~allow_cyclic_links
    /\ Finish(Raised("SymlinkRecursionError"))
    /\ UNCHANGED <<tree, args, call, jobs, pos, applied, cache, opens, real_paths,
                   task, file_hashes, real_path_to_hash>>

\* dir_apply (lines 124-133) on the next directory of the walk, in the serial
\* branch and in the composition of the multiprocessing branch.  The root is
\* the last node: its hash is what dirhash() returns (line 193).
DirApply ==
    /\ pc \in {"serial", "compose"}
    /\ current.file = 0
    /\ NodeAt(tree, current.dir).kind = "cyclic" => allow_cyclic_links
    /\ LET dir_node == AppliedDirNode(tree, current.dir, applied) IN
       IF NothingToHash(args.empty_dirs, dir_node)
       THEN /\ Finish(Raised("ValueError"))
            /\ UNCHANGED <<applied, pos>>
       ELSE LET _dirhash == dir_apply(args.entry_properties, dir_node) IN
            IF pos = Len(order)
            THEN /\ Finish(Returned(_dirhash))
                 /\ UNCHANGED <<applied, pos>>
            ELSE /\ applied' = (current :> _dirhash) @@ applied
                 /\ pos' = pos + 1
                 /\ UNCHANGED <<pc, result>>
    /\ UNCHANGED <<tree, args, call, jobs, cache, opens, real_paths, task, file_hashes,
                   real_path_to_hash>>

(***************************************************************************)
(* The multiprocessing branch (lines 157-191)                              *)
(***************************************************************************)
\* Lines 158-174: scantree with extract_real_paths, then list(real_paths).
\* A Python set lists its elements in an order of its own.
Discover ==
    /\ pc = "discover"
    /\ IF HasCyclic(tree) /\ ~allow_cyclic_links
       THEN /\ Finish(Raised("SymlinkRecursionError"))
            /\ UNCHANGED <<real_paths, task, file_hashes>>
       ELSE /\ real_paths' \in ListsOf(RealPathsOf(tree))
            /\ task' = [i \in 1..Len(real_paths') |-> "pending"]
            /\ file_hashes' = [i \in 1..Len(real_paths') |-> <<>>]
            /\ pc' = "pool"
            /\ UNCHANGED result
    /\ UNCHANGED <<tree, args, call, jobs, pos, applied, cache, opens, real_path_to_hash>>

\* A worker of the pool runs _get_filehash (no cache) on one element.
WorkerHash(i) ==
    /\ pc = "pool"
    /\ task[i] = "pending"
    /\ opens' = Opened(real_paths[i])
    /\ \E readable \in BOOLEAN :
          IF readable
          THEN /\ file_hashes' = [file_hashes EXCEPT ![i] =
                                    HashFile(Content(real_paths[i]), args.chunk_size)]
               /\ task' = [task EXCEPT ![i] = "done"]
          ELSE /\ task' = [task EXCEPT ![i] = "failed"]
               /\ UNCHANGED file_hashes
    /\ UNCHANGED <<tree, args, call, jobs, pc, pos, applied, cache, real_paths,
                   real_path_to_hash, result>>

\* Mutant of MapReturns: a failed element counts as finished.
MapReturnsDespiteFailure(t) == \A i \in 1..Len(t) : t[i] # "pending"

\* Mutant of MapReturns: the results are taken as soon as one has arrived.
MapReturnsFirstResult(t) == t = <<>> \/ \E i \in 1..Len(t) : t[i] = "done"

\* pool.map returns its list of results once every element has one.
MapReturns(t) == \A i \in 1..Len(t) : t[i] = "done"

\* pool.map re-raises the error of a worker.
MapRaises(t) == \E i \in 1..Len(t) : t[i] = "failed"

\* Mutant of Zip: the hashes are paired in the reverse order.
ZipReversed(keys, values) ==
    [k \in {keys[i] : i \in 1..Len(keys)} |->
        values[Len(keys) + 1 - (CHOOSE i \in 1..Len(keys) : keys[i] = k)]]

\* dict(zip(real_paths, file_hashes))
Zip(keys, values) ==
    [k \in {keys[i] : i \in 1..Len(keys)} |->
        values[CHOOSE i \in 1..Len(keys) :
                  keys[i] = k /\ \A j \in 1..Len(keys) : keys[j] = k => j <= i]]

\* Lines 176-186: _parmap returns, the table is built.
PoolMapReturn ==
    /\ pc = "pool"
    /\ MapReturns(task)
    /\ real_path_to_hash' = Zip(real_paths, file_hashes)
    /\ pc' = "compose"
    /\ UNCHANGED <<tree, args, call, jobs, pos, applied, cache, opens, real_paths, task,
                   file_hashes, result>>

\* _parmap raises (line 466): nothing catches it in dirhash().
PoolMapRaise ==
    /\ pc = "pool"
    /\ MapRaises(task)
    /\ Finish(Raised("IOError"))
    /\ UNCHANGED <<tree, args, call, jobs, pos, applied, cache, opens, real_paths, task,
                   file_hashes, real_path_to_hash>>

\* file_apply of lines 188-189 on the next file of root_node.apply's walk.
ComposeFileApply ==
    /\ pc = "compose"
    /\ current.file > 0
    /\ LET f == NodeAt(tree, current.dir).files[current.file] IN
       IF f.real \in DOMAIN real_path_to_hash
       THEN /\ applied' = (current :> real_path_to_hash[f.real]) @@ applied
            /\ pos' = pos + 1
            /\ UNCHANGED <<pc, result>>
       ELSE /\ Finish(Raised("KeyError"))
            /\ UNCHANGED <<applied, pos>>
    /\ UNCHANGED <<tree, args, call, jobs, cache, opens, real_paths, task, file_hashes,
                   real_path_to_hash>>

\* The caller makes the second call, on the same tree and configuration.
NextCall ==
    /\ pc = "returned"
    /\ call = 1
    /\ call' = 2
    /\ pc' = "call"
    /\ UNCHANGED <<tree, args, jobs, pos, applied, cache, opens, real_paths, task,
                   file_hashes, real_path_to_hash, result>>

Next ==
    \/ Call
    \/ SerialFileApply
    \/ SerialCyclicLinkRaise
    \/ DirApply
    \/ Discover
    \/ \E i \in 1..Len(task) : WorkerHash(i)
    \/ PoolMapReturn
    \/ PoolMapRaise
    \/ ComposeFileApply
    \/ NextCall

Spec == Init /\ [][Next]_vars

(***************************************************************************)
(* Properties of dirhash()                                                 *)
(***************************************************************************)
IsFileId(id) == id.file > 0
FileOf(id) == NodeAt(tree, id.dir).files[id.file]
FileIds == {id \in {order[k] : k \in 1..Len(order)} : IsFileId(id)}
DirIds == {id \in {order[k] : k \in 1..Len(order)} : ~IsFileId(id)}
BothReturnedDigests ==
    /\ call = 2 /\ pc = "returned"
    /\ result[1].status = "returned" /\ result[2].status = "returned"

\* C1: whenever the call with jobs = 1 and the call with jobs > 1 on the same
\* tree and configuration both return a digest, the two digests are equal,
\* whatever the order in which the workers finished and in which the set of
\* real paths was listed.
C1_ParallelEqualsSerial ==
    BothReturnedDigests => result[1].value = result[2].value

\* C1 witness: both calls returned, on a tree in which a linked file and
\* another file resolve to the same real path.
C1_Witness ==
    /\ BothReturnedDigests
    /\ jobs > 1
    /\ \E i, j \in FileIds :
          i # j /\ FileOf(i).real = FileOf(j).real /\ FileOf(i).is_symlink

\* C4: in the multiprocessing branch, once a worker has failed the call has
\* no digest and never reaches the composition: it ends with the worker's
\* error, and no file is opened a second time.
C4_WorkerFailureIsFatal ==
    (jobs > 1 /\ \E i \in 1..Len(task) : task[i] = "failed")
        => /\ pc \in {"pool", "returned"}
           /\ result[call].status # "returned"
           /\ pc = "returned" => result[call] = Raised("IOError")
           /\ \A r \in RealPaths : opens[r] <= 1

\* C4 witness: the call has ended after one worker failed and another one
\* had delivered its hash.
C4_Witness ==
    /\ jobs > 1 /\ pc = "returned"
    /\ \E i, j \in 1..Len(task) : task[i] = "failed" /\ task[j] = "done"

\* C5: a call ends with 'Nothing to hash' exactly when empty_dirs is false
\* and the root has no entries, in the serial and in the multiprocessing
\* branch alike, and the directory at which it is raised is the root.
C5_NothingToHashOnlyForEmptyRoot ==
    pc = "returned" =>
        /\ (~args.empty_dirs /\ empty(tree)) <=> result[call] = Raised("ValueError")
        /\ result[call] = Raised("ValueError") => current = [dir |-> <<>>, file |-> 0]

\* C5 witness: both calls ended with 'Nothing to hash'.
C5_Witness ==
    /\ call = 2 /\ pc = "returned" /\ jobs > 1
    /\ result[1] = Raised("ValueError") /\ result[2] = Raised("ValueError")

\* C8: while the composition runs every worker has finished and the table
\* holds the hash of every real path of the tree; and when the pool starts,
\* after the discovery, no file has been opened yet.
C8_BarrierBeforeComposition ==
    /\ pc = "compose" =>
          /\ \A i \in 1..Len(task) : task[i] = "done"
          /\ DOMAIN real_path_to_hash = RealPathsOf(tree)
          /\ \A r \in RealPathsOf(tree) :
                real_path_to_hash[r] = hexdigest(Content(r))
    /\ (pc = "pool" /\ \A i \in 1..Len(task) : task[i] = "pending") => opens = NoOpens

\* C8 witness: the composition is about to apply its first node, with two
\* real paths in the table.
C8_Witness ==
    pc = "compose" /\ pos = 1 /\ Len(real_paths) = 2

\* C10: within one call no real path is opened more than once, and all files
\* that resolve to one real path are given the same hash.
C10_HashedAtMostOnce ==
    /\ \A r \in RealPaths : opens[r] <= 1
    /\ \A i, j \in {id \in DOMAIN applied : IsFileId(id)} :
          FileOf(i).real = FileOf(j).real => applied[i] = applied[j]

\* C10 witness: the serial walk has served a second path to a real file from
\* its cache.
C10_Witness ==
    /\ jobs = 1 /\ pc = "serial"
    /\ \E i, j \in {id \in DOMAIN applied : IsFileId(id)} :
          i # j /\ FileOf(i).real = FileOf(j).real /\ opens[FileOf(i).real] = 1

\* "../.." and the like: n times "..", joined by "/".
UpPath(n) == join(<<47>>, [k \in 1..n |-> <<46, 46>>])
Contains(s, sub) ==
    \E k \in 0..(Len(s) - Len(sub)) : SubSeq(s, k + 1, k + Len(sub)) = sub
\* The cyclic links that dir_apply has been applied to.
AppliedCyclicIds ==
    {id \in DOMAIN applied : ~IsFileId(id) /\ NodeAt(tree, id.dir).kind = "cyclic"}
LevelsUp(id) == Len(id.dir) - NodeAt(tree, id.dir).target
ParentOf(id) == SubSeq(id.dir, 1, Len(id.dir) - 1)
ChildrenApplied(addr) ==
    LET node == NodeAt(tree, addr) IN
    /\ \A i \in 1..Len(node.files) : [dir |-> addr, file |-> i] \in DOMAIN applied
    /\ \A i \in 1..Len(node.directories) :
          [dir |-> addr \o <<i>>, file |-> 0] \in DOMAIN applied

\* C9 as stated: what a cyclic link contributes to its parent's descriptor is
\* the relative path to its target itself, unhashed.
C9_ReferenceUsedLiterally ==
    \A id \in AppliedCyclicIds :
        applied[id] = _get_cyclic_linked_dir_descriptor(AppliedDirNode(tree, id.dir, applied))

\* C9 amended: under hash_reference the relative path from a cyclic link to
\* its target ("..", "../..", ...) is hashed by dir_apply like any other
\* directory descriptor, and that digest enters the parent's descriptor
\* under the key dirhash.
C9_ReferenceIsHashed ==
    \A id \in AppliedCyclicIds :
        /\ applied[id] = hexdigest(UpPath(LevelsUp(id)))
        /\ ChildrenApplied(ParentOf(id)) =>
              Contains(get_descriptor(args.entry_properties,
                                      AppliedDirNode(tree, ParentOf(id), applied)),
                       KeyText("dirhash") \o <<58>> \o hexdigest(UpPath(LevelsUp(id))))

\* C9 witness: a cyclic link two levels below its target has been applied,
\* and so have all entries of its parent.
C9_Witness ==
    \E id \in AppliedCyclicIds :
        /\ args.on_cyclic_link = HASH_REFERENCE
        /\ LevelsUp(id) = 2
        /\ ChildrenApplied(ParentOf(id))

(***************************************************************************)
(* The same tree scanned again with jobs = 1 after a change that leaves    *)
(* every file's content alone: the scanner lists the entries of one        *)
(* directory in another order, or one file has been renamed.               *)
(***************************************************************************)
RECURSIVE ReplaceAt(_, _, _)
ReplaceAt(node, addr, new) ==
    IF addr = <<>> THEN new
    ELSE [node EXCEPT !.directories[Head(addr)] = ReplaceAt(@, Tail(addr), new)]

Swap(seq, i) == [seq EXCEPT ![i] = seq[i + 1], ![i + 1] = seq[i]]

DirAddrs == {id.dir : id \in {i \in DirIds : NodeAt(tree, i.dir).kind = "dir"}}

\* The second scan lists two neighbouring sub-directories, or two
\* neighbouring files, of one directory the other way round.
NextCallPermuted ==
    /\ pc = "returned"
    /\ call = 1
    /\ \E addr \in DirAddrs :
          LET node == NodeAt(tree, addr) IN
          \/ \E i \in 1..(Len(node.directories) - 1) :
                tree' = ReplaceAt(tree, addr,
                            [node EXCEPT !.directories = Swap(node.directories, i)])
          \/ \E i \in 1..(Len(node.files) - 1) :
                tree' = ReplaceAt(tree, addr, [node EXCEPT !.files = Swap(node.files, i)])
    /\ call' = 2
    /\ pc' = "call"
    /\ UNCHANGED <<args, jobs, pos, applied, cache, opens, real_paths, task,
                   file_hashes, real_path_to_hash, result>>

NextOrder ==
    \/ CallSerial
    \/ SerialFileApply
    \/ SerialCyclicLinkRaise
    \/ DirApply
    \/ NextCallPermuted

SpecOrder == Init /\ [][NextOrder]_vars

RenameTargets == Names \cup {<<99>>}       \* "a", "b", "c"

\* One file is renamed, to a name no entry of its directory bears, before the
\* second call.
NextCallRenamed ==
    /\ pc = "returned"
    /\ call = 1
    /\ \E id \in FileIds, new \in RenameTargets :
          LET node == NodeAt(tree, id.dir) IN
          /\ \A i \in 1..Len(node.files) : node.files[i].name # new
          /\ \A i \in 1..Len(node.directories) : node.directories[i].name # new
          /\ tree' = ReplaceAt(tree, id.dir, [node EXCEPT !.files[id.file].name = new])
    /\ call' = 2
    /\ pc' = "call"
    /\ UNCHANGED <<args, jobs, pos, applied, cache, opens, real_paths, task,
                   file_hashes, real_path_to_hash, result>>

NextRename ==
    \/ CallSerial
    \/ SerialFileApply
    \/ SerialCyclicLinkRaise
    \/ DirApply
    \/ NextCallRenamed

SpecRename == Init /\ [][NextRename]_vars

\* C2: when the scanner lists the children of a directory in another order,
\* dirhash returns the same digest.
C2_ListingOrderIndependent ==
    BothReturnedDigests => result[1].value = result[2].value

\* C2 witness: both calls returned a digest, and the root's two files were
\* listed the other way round for the second call.
C2_Witness ==
    /\ BothReturnedDigests
    /\ Len(tree.files) = 2
    /\ StrLess(tree.files[2].name, tree.files[1].name)

\* C3: after one file is renamed to an unused name, with every content and
\* the structure unchanged, the digest differs from the one before if and
\* only if name is among the Protocol's entry_properties.
C3_RenameChangesDigestIffName ==
    BothReturnedDigests =>
        (result[1].value # result[2].value <=> NAME \in args.entry_properties)

\* C3 witness: a rename went unnoticed under entry_properties = {data}.
C3_Witness ==
    /\ BothReturnedDigests
    /\ args.entry_properties = {DATA}
    /\ \E id \in FileIds : FileOf(id).name = <<99>>

(***************************************************************************)
(* included_paths (lines 196-228)                                          *)
(***************************************************************************)
\* The leaves of the tree: every file, and every directory that is empty or
\* a cyclic link.  A leaf is [relative, is_file].
RECURSIVE Leaves(_, _)
Leaves(node, rel) ==
    {[relative |-> rel \o <<node.files[i].name>>, is_file |-> TRUE] :
        i \in 1..Len(node.files)}
    \cup (IF node.kind = "cyclic" \/ (node.directories = <<>> /\ node.files = <<>>)
          THEN {[relative |-> rel, is_file |-> FALSE]} ELSE {})
    \cup UNION {Leaves(node.directories[i], rel \o <<node.directories[i].name>>) :
                    i \in 1..Len(node.directories)}

\* DirNode.leafpaths(): the leaves ordered by their relative path.
leafpaths(root) ==
    LET leafs == Leaves(root, <<>>)
        keys == sorted(CHOOSE l \in [1..Cardinality(leafs) -> {PathText(x.relative) : x \in leafs}] :
                          \A x \in leafs : \E i \in 1..Cardinality(leafs) : l[i] = PathText(x.relative))
    IN [i \in 1..Len(keys) |-> CHOOSE x \in leafs : PathText(x.relative) = keys[i]]

\* os.path.join(path.relative, '.')
JoinSelf(comps) == IF comps = <<>> THEN <<46>> ELSE PathText(comps) \o <<47, 46>>

\* The list comprehension of lines 225-228.
included_paths(root) ==
    LET leafs == leafpaths(root) IN
    [i \in 1..Len(leafs) |->
        IF leafs[i].is_file THEN PathText(leafs[i].relative)
        ELSE JoinSelf(leafs[i].relative)]

PathNames == {<<97>>, <<97, 46, 98>>}      \* "a", "a.b"
PathArgs ==
    [entry_properties : ValidEntryProperties,
     on_cyclic_link : {RAISE, HASH_REFERENCE},
     empty_dirs : BOOLEAN]

InitPaths ==
    /\ args \in PathArgs
    /\ tree \in {t \in TreesNamed(PathNames) : args.empty_dirs \/ NoEmptyDirBelow(t)}
    /\ NotCalled

\* included_paths(directory, filtering, protocol) is called.
IncludedPaths ==
    /\ pc = "call"
    /\ Finish(IF HasCyclic(tree) /\ ~allow_cyclic_links
              THEN Raised("SymlinkRecursionError")
              ELSE Returned(included_paths(tree)))
    /\ UNCHANGED <<tree, args, call, jobs, pos, applied, cache, opens, real_paths, task,
                   file_hashes, real_path_to_hash>>

NextPaths == IncludedPaths

SpecPaths == InitPaths /\ [][NextPaths]_vars

IsSorted(list) == \A i \in 1..(Len(list) - 1) : ~StrLess(list[i + 1], list[i])

\* C6: the list included_paths returns is in ascending string order.
C6_IncludedPathsSorted ==
    (pc = "returned" /\ result[1].status = "returned") => IsSorted(result[1].value)

(***************************************************************************)
(* get_match_patterns (lines 272-318)                                      *)
(***************************************************************************)
MaxPatterns == 2       \* the longest list passed for match, ignore, ignore_extensions

\* An optional list argument: None, or a list.
None == [given |-> FALSE, list |-> <<>>]
Some(list) == [given |-> TRUE, list |-> list]

\* Mutant of deduplicate: of equal items the last one is kept.
RECURSIVE deduplicate_keep_last(_)
deduplicate_keep_last(items) ==
    IF items = <<>> THEN <<>>
    ELSE IF \E k \in 2..Len(items) : items[k] = Head(items)
         THEN deduplicate_keep_last(Tail(items))
         ELSE <<Head(items)>> \o deduplicate_keep_last(Tail(items))

\* The loop of deduplicate (lines 309-316), from item i on.
RECURSIVE DeduplicateLoop(_, _, _, _)
DeduplicateLoop(items, i, items_set, dd_items) ==
    IF i > Len(items) THEN dd_items
    ELSE IF items[i] \notin items_set
         THEN DeduplicateLoop(items, i + 1, items_set \cup {items[i]},
                              Append(dd_items, items[i]))
         ELSE DeduplicateLoop(items, i + 1, items_set, dd_items)

deduplicate(items) == DeduplicateLoop(items, 1, {}, <<>>)

\* Lines 300-304: the ignore pattern of one extension.
ExtensionPattern(ext) ==
    <<42>> \o (IF ext # <<>> /\ ext[1] = 46 THEN ext ELSE <<46>> \o ext)

\* Lines 293-306: the list put together before duplicates are removed.
match_spec(match, ignore, ignore_extensions, ignore_hidden) ==
    LET match_ == IF ~match.given THEN << <<42>> >> ELSE match.list
        ignore0 == IF ~ignore.given THEN <<>> ELSE ignore.list
        exts == IF ~ignore_extensions.given THEN <<>> ELSE ignore_extensions.list
        ignore1 == IF ignore_hidden THEN ignore0 \o << <<46, 42>>, <<46, 42, 47>> >>
                   ELSE ignore0
        ignore2 == ignore1 \o [i \in 1..Len(exts) |-> ExtensionPattern(exts[i])]
    IN match_ \o [i \in 1..Len(ignore2) |-> <<33>> \o ignore2[i]]

get_match_patterns(match, ignore, ignore_extensions, ignore_hidden) ==
    deduplicate(match_spec(match, ignore, ignore_extensions, ignore_hidden))

\* All lists of at most n items of S.
RECURSIVE ListsUpTo(_, _)
ListsUpTo(S, n) ==
    IF n = 0 THEN {<<>>}
    ELSE ListsUpTo(S, n - 1)
         \cup {Append(l, x) : l \in {m \in ListsUpTo(S, n - 1) : Len(m) = n - 1}, x \in S}

Optional(S) == {None} \cup {Some(l) : l \in ListsUpTo(S, MaxPatterns)}

MatchItems == {<<42>>, <<33, 46, 42>>, <<33, 42, 46, 98>>}     \* "*", "!.*", "!*.b"
IgnoreItems == {<<46, 42>>, <<46, 42, 47>>, <<42, 46, 98>>}    \* ".*", ".*/", "*.b"
ExtensionItems == {<<98>>, <<46, 98>>}                         \* "b", ".b"

InitPatterns ==
    /\ args \in [match : Optional(MatchItems),
                 ignore : Optional(IgnoreItems),
                 ignore_extensions : Optional(ExtensionItems),
                 ignore_hidden : BOOLEAN]
    /\ tree = <<>>
    /\ NotCalled

\* get_match_patterns(match, ignore, ignore_extensions, ignore_hidden) is called.
GetMatchPatterns ==
    /\ pc = "call"
    /\ Finish(Returned(get_match_patterns(args.match, args.ignore,
                                          args.ignore_extensions, args.ignore_hidden)))
    /\ UNCHANGED <<tree, args, call, jobs, pos, applied, cache, opens, real_paths, task,
                   file_hashes, real_path_to_hash>>

NextPatterns == GetMatchPatterns

SpecPatterns == InitPatterns /\ [][NextPatterns]_vars

\* The list the claim describes, before duplicates are removed.
Negated(list) == [i \in 1..Len(list) |-> <<33>> \o list[i]]
StarDot(ext) == IF ext # <<>> /\ Head(ext) = 46 THEN <<42>> \o ext ELSE <<42, 46>> \o ext
Concatenation ==
    (IF args.match.given THEN args.match.list ELSE << <<42>> >>)
    \o Negated(args.ignore.list)
    \o (IF args.ignore_hidden THEN << <<33, 46, 42>>, <<33, 46, 42, 47>> >> ELSE <<>>)
    \o Negated([i \in 1..Len(args.ignore_extensions.list) |->
                    StarDot(args.ignore_extensions.list[i])])
FirstIndex(list, x) == CHOOSE i \in 1..Len(list) : list[i] = x /\ \A j \in 1..(i - 1) : list[j] # x
Elements(list) == {list[i] : i \in 1..Len(list)}

\* C7: get_match_patterns returns the patterns of match, then the negated
\* ignore patterns, then "!.*" and "!.*/" if ignore_hidden, then the negated
\* extension patterns: each distinct pattern once, in the order of their
\* first occurrences; and ignore_hidden gives what appending ".*" and ".*/"
\* to ignore gives.
C7_PatternsDeduplicatedInOrder ==
    pc = "returned" =>
        LET patterns == result[1].value IN
        /\ Elements(patterns) = Elements(Concatenation)
        /\ \A i, j \in 1..Len(patterns) :
              i < j => FirstIndex(Concatenation, patterns[i])
                         < FirstIndex(Concatenation, patterns[j])
        /\ args.ignore_hidden =>
              patterns = get_match_patterns(args.match,
                             Some(args.ignore.list \o << <<46, 42>>, <<46, 42, 47>> >>),
                             args.ignore_extensions, FALSE)

\* C7 witness: a call with ignore_hidden returned fewer patterns than were
\* put together, the first of the equal ones surviving.
C7_Witness ==
    /\ pc = "returned"
    /\ args.ignore_hidden
    /\ Len(result[1].value) < Len(Concatenation)
    /\ \E i \in 1..Len(Concatenation) :
          /\ FirstIndex(Concatenation, Concatenation[i]) < i
          /\ i < Len(Concatenation)

(***************************************************************************)
(* The Filter's decision on a path (gitignore style, the last matching     *)
(* rule wins), for entries directly below the root.                        *)
(***************************************************************************)
\* Glob matching of a name: "*" stands for any run of characters, every
\* other character for itself.
RECURSIVE GlobMatch(_, _)
GlobMatch(pattern, name) ==
    IF pattern = <<>> THEN name = <<>>
    ELSE IF Head(pattern) = 42
         THEN \/ GlobMatch(Tail(pattern), name)
              \/ name # <<>> /\ GlobMatch(pattern, Tail(name))
         ELSE name # <<>> /\ Head(name) = Head(pattern)
              /\ GlobMatch(Tail(pattern), Tail(name))

\* A rule is a pattern, negated by a leading "!"; a trailing "/" makes it
\* match directories only.
IsNegation(rule) == rule # <<>> /\ Head(rule) = 33
RulePattern(rule) == IF IsNegation(rule) THEN Tail(rule) ELSE rule
RuleMatches(rule, path) ==
    LET pattern == RulePattern(rule) IN
    IF pattern # <<>> /\ pattern[Len(pattern)] = 47
    THEN path.is_dir /\ GlobMatch(SubSeq(pattern, 1, Len(pattern) - 1), path.relative)
    ELSE GlobMatch(pattern, path.relative)

\* The path is included if the last rule that matches it is not a negation,
\* and excluded if that rule is a negation or no rule matches.
Include(rules, path) ==
    LET matching == {i \in 1..Len(rules) : RuleMatches(rules[i], path)} IN
    /\ matching # {}
    /\ ~IsNegation(rules[CHOOSE i \in matching : \A j \in matching : j <= i])

\* ".x", "x.b", "x", each as a file and as a directory.
FilterPaths ==
    [relative : {<<46, 120>>, <<120, 46, 98>>, <<120>>}, is_dir : BOOLEAN]

\* C11: for every path the last-match-wins decision over the list that
\* get_match_patterns returns equals the decision over the same list before
\* its duplicates were removed.
C11_DeduplicationPreservesDecision ==
    pc = "returned" =>
        \A path \in FilterPaths :
            Include(result[1].value, path)
                <=> Include(match_spec(args.match, args.ignore,
                                       args.ignore_extensions, args.ignore_hidden), path)
====
